---- MODULE Spec2Model ----
(***************************************************************************)
(* Model of bobo (src/main.rs): an HTTP test double serving canned         *)
(* responses from a mutex-guarded route table, with random error           *)
(* injection and a /routes endpoint that upserts routes at run time.       *)
(*                                                                         *)
(* One worker is modelled: it runs one handler to completion (one action   *)
(* per handler), the response is written back (SendResponse), and the      *)
(* worker takes the next request.                                          *)
(***************************************************************************)
EXTENDS Integers, Sequences, FiniteSets, TLC

VARIABLES
    dynamic_routes,     \* AppState.dynamic_routes: HashMap<String, Route>
    error_percentage,   \* AppState.error_percentage: u8
    req,                \* the request the worker has just handled
    resp,               \* the HttpResponse the handler returned
    rng,                \* the values the handler drew from thread_rng, in order
    th,                 \* concurrent workers: each one's position and locals
    table_lock,         \* owner of the dynamic_routes mutex
    pct_lock,           \* owner of the error_percentage mutex
    committed           \* history: the table as the completed updates left it

vars == <<dynamic_routes, error_percentage, req, resp, rng,
          th, table_lock, pct_lock, committed>>

----------------------------------------------------------------------------
(* Bounds and input sets *)

\* longest JSON array sent to /routes
MaxBatch == 2

\* path strings as the router hands them to dynamic_handler
Paths == {"a", "b"}
ReqPaths == Paths \cup {"c"}

\* method strings a stored route may carry ("get" is a lower-case variant)
StoredMethods == {"GET", "POST", "PATCH", "PUT", "DELETE", "get"}
Responses == {"OK", "hi"}
Codes == {99, 100, 200, 500, 999, 1000}

NoReq == [handler |-> "none"]
NoResp == [status |-> 0, body |-> "", sent |-> TRUE]

\* workers handling requests at the same time
NumWorkers == 2
Workers == 1..NumWorkers

\* a mutex nobody holds
Free == 0

\* a worker between requests
IdleWorker ==
    [pc |-> "idle", handler |-> "none", method |-> "", path |-> "", route |-> <<>>,
     new_routes |-> <<>>, i |-> 0, ep |-> 0, resp |-> NoResp]

\* the one-worker handlers leave the concurrent workers alone
SeqFrame ==
    /\ UNCHANGED <<th, table_lock, pct_lock>>
    /\ committed' = dynamic_routes'

\* no concurrent worker has started
WorkersIdle ==
    /\ th = [w \in Workers |-> IdleWorker]
    /\ table_lock = Free
    /\ pct_lock = Free
    /\ committed = dynamic_routes

----------------------------------------------------------------------------
(* Route and its JSON form *)

Route == [method : StoredMethods, path : Paths, response : Responses,
          code : Codes, error : BOOLEAN]

RouteDefault ==
    [method |-> "GET", path |-> "", response |-> "OK", code |-> 200, error |-> FALSE]

\* JSON values are tagged: <<"str", s>>, <<"num", n>>, <<"bool", b>>, <<"obj", f>>
JStr(s) == <<"str", s>>
JNum(n) == <<"num", n>>
JBool(b) == <<"bool", b>>
JObj(f) == <<"obj", f>>

RouteFields == {"method", "path", "response", "code", "error"}

\* the JSON object serde writes for a Route
ToJson(r) ==
    JObj([f \in RouteFields |->
            CASE f = "method" -> JStr(r.method)
              [] f = "path" -> JStr(r.path)
              [] f = "response" -> JStr(r.response)
              [] f = "code" -> JNum(r.code)
              [] f = "error" -> JBool(r.error)])

\* a JSON object with the fields in F removed
Omit(o, F) == JObj([f \in (DOMAIN o[2]) \ F |-> o[2][f]])

\* a JSON object with field f set to value v
WithField(o, f, v) ==
    JObj([g \in (DOMAIN o[2]) \cup {f} |-> IF g = f THEN v ELSE o[2][g]])

U16Max == 65535

ParseErr == [err |-> "parse"]

HasField(o, f, tag) == f \in DOMAIN o /\ o[f][1] = tag

\* derived Deserialize for Route: every field is required (no serde default)
DeserializeRoute(item) ==
    IF item[1] # "obj" THEN ParseErr
    ELSE LET o == item[2] IN
         IF /\ HasField(o, "method", "str")
            /\ HasField(o, "path", "str")
            /\ HasField(o, "response", "str")
            /\ HasField(o, "code", "num")
            /\ HasField(o, "error", "bool")
         THEN IF o["code"][2] >= 0 /\ o["code"][2] <= U16Max
              THEN [method |-> o["method"][2], path |-> o["path"][2],
                    response |-> o["response"][2], code |-> o["code"][2],
                    error |-> o["error"][2]]
              ELSE ParseErr
         ELSE ParseErr

\* a parse that drops the elements that fail and keeps the rest
FromStr_SkipBad(body) ==
    IF body.kind # "array" THEN [ok |-> FALSE, val |-> <<>>]
    ELSE LET good == SelectSeq(body.items, LAMBDA it : DeserializeRoute(it) # ParseErr) IN
         [ok |-> TRUE, val |-> [i \in 1..Len(good) |-> DeserializeRoute(good[i])]]

\* serde_json::from_str::<Vec<Route>>: one bad element fails the whole parse
FromStr(body) ==
    IF body.kind # "array" THEN [ok |-> FALSE, val |-> <<>>]
    ELSE IF \E i \in 1..Len(body.items) : DeserializeRoute(body.items[i]) = ParseErr
         THEN [ok |-> FALSE, val |-> <<>>]
         ELSE [ok |-> TRUE,
               val |-> [i \in 1..Len(body.items) |-> DeserializeRoute(body.items[i])]]

\* Result::unwrap_or_default on Vec<Route>
UnwrapOrDefault(res) == IF res.ok THEN res.val ELSE <<>>

----------------------------------------------------------------------------
(* Route table *)

\* an insert that keeps the response of the entry it replaces
Insert_Merge(m, k, v) ==
    [x \in (DOMAIN m) \cup {k} |->
        IF x = k
        THEN IF k \in DOMAIN m THEN [v EXCEPT !.response = m[k].response] ELSE v
        ELSE m[x]]

\* an insert that removes an existing entry instead of replacing it
Insert_Toggle(m, k, v) ==
    IF k \in DOMAIN m THEN [x \in (DOMAIN m) \ {k} |-> m[x]]
    ELSE [x \in (DOMAIN m) \cup {k} |-> IF x = k THEN v ELSE m[x]]

\* HashMap::insert
Insert(m, k, v) == [x \in (DOMAIN m) \cup {k} |-> IF x = k THEN v ELSE m[x]]

\* a lookup that falls back to some stored route when the key is missing
Get_Fallback(m, k) ==
    IF k \in DOMAIN m THEN <<m[k]>>
    ELSE IF DOMAIN m # {} THEN <<m[CHOOSE x \in DOMAIN m : TRUE]>> ELSE <<>>

\* HashMap::get(..).cloned(): <<>> is None, <<r>> is Some(r)
Get(m, k) == IF k \in DOMAIN m THEN <<m[k]>> ELSE <<>>

\* an update that replaces the table by the routes of its payload
InsertAll_Fresh(m, new_routes) ==
    IF new_routes = <<>> THEN m
    ELSE [p \in {new_routes[i].path : i \in 1..Len(new_routes)} |->
            new_routes[CHOOSE i \in 1..Len(new_routes) :
                          /\ new_routes[i].path = p
                          /\ \A j \in (i + 1)..Len(new_routes) : new_routes[j].path # p]]

\* the for loop of update_routes
RECURSIVE InsertAll(_, _)
InsertAll(m, new_routes) ==
    IF new_routes = <<>> THEN m
    ELSE InsertAll(Insert(m, Head(new_routes).path, Head(new_routes)), Tail(new_routes))

EmptyTable == [x \in {} |-> RouteDefault]

----------------------------------------------------------------------------
(* Error injector *)

errors == <<400, 401, 403, 408, 409, 500, 502, 503, 504>>

DrawRange == 100

\* the draws one call of error_code_picker makes: random_number, and the
\* index into errors only when random_number < error_percentage
PickerRuns(ep) ==
    {<<d, i>> : d \in {x \in 0..(DrawRange - 1) : x < ep}, i \in 0..(Len(errors) - 1)}
    \cup {<<d>> : d \in {x \in 0..(DrawRange - 1) : ~(x < ep)}}

\* the comparison written <= instead of <
error_code_picker_Le(ep, run) ==
    IF run[1] <= ep THEN errors[(IF Len(run) > 1 THEN run[2] ELSE 0) + 1] ELSE 200

error_code_picker(ep, run) ==
    IF run[1] < ep THEN errors[run[2] + 1] ELSE 200

\* largest value of error_percentage (u8)
U8Max == 255

\* only the registered classes 1xx..5xx taken as valid
StatusOrOk_Below600(code) == IF code >= 100 /\ code < 600 THEN code ELSE 200

\* StatusCode::from_u16(code).unwrap_or(StatusCode::OK)
StatusOrOk(code) == IF code >= 100 /\ code < 1000 THEN code ELSE 200

----------------------------------------------------------------------------
(* Handlers *)

Response(status, body) == [status |-> status, body |-> body, sent |-> FALSE]

\* methods the router passes to dynamic_handler
DynMethods == {"GET", "POST", "PUT", "DELETE", "PATCH"}

\* the injected status of a flagged route, 200 when nothing was drawn
InjectedOr200(ep, run) == IF run = <<>> THEN 200 ELSE StatusOrOk(error_code_picker(ep, run))

\* "PUT" left out of the arm that answers with the stored body
DynamicResponse_NoPut(route, method, ep, run) ==
    IF route # <<>>
    THEN LET r == route[1]
             status_code == StatusOrOk(r.code)
         IN IF method = r.method
            THEN IF r.error
                 THEN Response(InjectedOr200(ep, run), "")
                 ELSE IF r.method \in {"GET", "POST", "PATCH"}
                      THEN Response(status_code, r.response)
                      ELSE IF r.method = "DELETE"
                           THEN Response(status_code, "")
                           ELSE Response(404, "")
            ELSE Response(405, "")
    ELSE Response(404, "")

ToUpper(s) == IF s = "get" THEN "GET" ELSE s

\* the method compared ignoring ASCII case
DynamicResponse_IgnoreCase(route, method, ep, run) ==
    IF route # <<>>
    THEN LET r == route[1]
             status_code == StatusOrOk(r.code)
         IN IF ToUpper(method) = ToUpper(r.method)
            THEN IF r.error
                 THEN Response(InjectedOr200(ep, run), "")
                 ELSE IF ToUpper(r.method) \in {"GET", "POST", "PATCH", "PUT"}
                      THEN Response(status_code, r.response)
                      ELSE IF r.method = "DELETE"
                           THEN Response(status_code, "")
                           ELSE Response(404, "")
            ELSE Response(405, "")
    ELSE Response(404, "")

\* a flagged route served from its own code and response when the injector
\* returns 200
DynamicResponse_FallThrough(route, method, ep, run) ==
    IF route # <<>>
    THEN LET r == route[1]
             status_code == StatusOrOk(r.code)
         IN IF method = r.method
            THEN IF r.error /\ InjectedOr200(ep, run) # 200
                 THEN Response(InjectedOr200(ep, run), "")
                 ELSE IF r.method \in {"GET", "POST", "PATCH", "PUT"}
                      THEN Response(status_code, r.response)
                      ELSE IF r.method = "DELETE"
                           THEN Response(status_code, "")
                           ELSE Response(404, "")
            ELSE Response(405, "")
    ELSE Response(404, "")

\* the catch-all arm of the match answering like the body-carrying methods
DynamicResponse_DefaultBody(route, method, ep, run) ==
    IF route # <<>>
    THEN LET r == route[1]
             status_code == StatusOrOk(r.code)
         IN IF method = r.method
            THEN IF r.error
                 THEN Response(InjectedOr200(ep, run), "")
                 ELSE IF r.method = "DELETE"
                      THEN Response(status_code, "")
                      ELSE Response(status_code, r.response)
            ELSE Response(405, "")
    ELSE Response(404, "")

\* the response dynamic_handler builds for a looked-up route, given the
\* draws of the error injector (<<>> when it is not called)
DynamicResponse(route, method, ep, run) ==
    IF route # <<>>
    THEN LET r == route[1]
             status_code == StatusOrOk(r.code)
         IN IF method = r.method
            THEN IF r.error
                 THEN Response(StatusOrOk(error_code_picker(ep, run)), "")
                 ELSE IF r.method \in {"GET", "POST", "PATCH", "PUT"}
                      THEN Response(status_code, r.response)
                      ELSE IF r.method = "DELETE"
                           THEN Response(status_code, "")
                           ELSE Response(404, "")
            ELSE Response(405, "")
    ELSE Response(404, "")

\* the draws dynamic_handler makes: those of one error_code_picker call
\* when the route matches and is flagged, none otherwise
DynamicRuns(route, method, ep) ==
    IF route # <<>> /\ method = route[1].method /\ route[1].error
    THEN PickerRuns(ep)
    ELSE {<<>>}

Idle == resp = NoResp

\* a lookup through the entry API, which stores a default route on a miss
AfterLookup_OrDefault(m, k) ==
    IF k \in DOMAIN m THEN m ELSE Insert(m, k, [RouteDefault EXCEPT !.path = k])

\* the table after routes.get(..): get borrows the map immutably
AfterLookup(m, k) == m

\* dynamic_handler called with a method of the set methods
DispatchFrom(methods) ==
    /\ Idle
    /\ \E method \in methods, path \in ReqPaths :
         LET route == Get(dynamic_routes, path) IN
         \E run \in DynamicRuns(route, method, error_percentage) :
            /\ req' = [handler |-> "dynamic_handler", method |-> method, path |-> path]
            /\ rng' = run
            /\ resp' = DynamicResponse(route, method, error_percentage, run)
            /\ dynamic_routes' = AfterLookup(dynamic_routes, path)
    /\ UNCHANGED error_percentage
    /\ SeqFrame

\* dynamic_handler behind the router, which passes it the five methods of
\* the catch-all resource
dynamic_handler == DispatchFrom(DynMethods)

\* request bodies sent to /echo
EchoBodies == {"", "hi"}

echo ==
    /\ Idle
    /\ \E req_body \in EchoBodies :
         /\ req' = [handler |-> "echo", body |-> req_body]
         /\ resp' = Response(200, req_body)
    /\ rng' = <<>>
    /\ UNCHANGED <<dynamic_routes, error_percentage>>
    /\ SeqFrame

\* what gethostname().into_string() yields: the name, or the fallback when
\* the name is not valid UTF-8
HostNames == {"box", "Unknown Host"}

host ==
    /\ Idle
    /\ \E os_string \in HostNames :
         /\ req' = [handler |-> "host"]
         /\ resp' = Response(200, os_string)
    /\ rng' = <<>>
    /\ UNCHANGED <<dynamic_routes, error_percentage>>
    /\ SeqFrame

healthz ==
    /\ Idle
    /\ req' = [handler |-> "healthz"]
    /\ resp' = Response(200, "OK")
    /\ rng' = <<>>
    /\ UNCHANGED <<dynamic_routes, error_percentage>>
    /\ SeqFrame

\* codes asked of /status/{code}
StatusInputs == {99, 100, 404, 999, 1000}

\* the handler panicked: the connection is closed and no response written
Aborted == Response(0, "")

\* StatusCode::from_u16(info.0).unwrap() panics outside 100..999
status_code ==
    /\ Idle
    /\ \E code \in StatusInputs :
         /\ req' = [handler |-> "status_code", code |-> code]
         /\ resp' = IF code >= 100 /\ code < 1000 THEN Response(code, "") ELSE Aborted
    /\ rng' = <<>>
    /\ UNCHANGED <<dynamic_routes, error_percentage>>
    /\ SeqFrame

status_error_percentage ==
    /\ Idle
    /\ \E run \in PickerRuns(error_percentage) :
         LET error_code == error_code_picker(error_percentage, run) IN
            /\ req' = [handler |-> "status_error_percentage"]
            /\ rng' = run
            /\ resp' = IF error_code # 200 THEN Response(error_code, "")
                       ELSE Response(200, "")
    /\ UNCHANGED <<dynamic_routes, error_percentage>>
    /\ SeqFrame

\* JSON bodies sent to /routes
PayloadRoutes ==
    {[method |-> "GET", path |-> p, response |-> "hi", code |-> 500, error |-> FALSE] : p \in Paths}
    \cup {[method |-> "DELETE", path |-> "a", response |-> "OK", code |-> 200, error |-> TRUE]}
    \cup {[method |-> "POST", path |-> "b", response |-> "OK", code |-> 99, error |-> FALSE]}

Items ==
    {ToJson(r) : r \in PayloadRoutes}
    \cup {Omit(ToJson(r), {"error"}) : r \in {x \in PayloadRoutes : x.path = "b"}}
    \cup {JObj([f \in {"path"} |-> JStr("a")])}
    \cup {WithField(ToJson(r), "code", JStr("500")) : r \in {x \in PayloadRoutes : x.path = "b"}}
    \cup {JNum(7)}

RECURSIVE SeqsUpTo(_, _)
SeqsUpTo(S, n) ==
    IF n = 0 THEN {<<>>}
    ELSE LET shorter == SeqsUpTo(S, n - 1) IN
         shorter \cup {Append(s, x) : s \in {t \in shorter : Len(t) = n - 1}, x \in S}

Bodies ==
    {[kind |-> "array", items |-> s] : s \in SeqsUpTo(Items, MaxBatch)}
    \cup {[kind |-> "garbage", items |-> <<>>]}

\* an update that reports a failed parse as 400 Bad Request
UpdateResponse_BadRequest(parsed) ==
    IF parsed.ok THEN Response(200, "") ELSE Response(400, "")

\* HttpResponse::Ok().finish(), whatever from_str returned
UpdateResponse(parsed) == Response(200, "")

update_routes ==
    /\ Idle
    /\ \E req_body \in Bodies :
         LET parsed == FromStr(req_body)
             new_routes == UnwrapOrDefault(parsed)
         IN /\ dynamic_routes' = InsertAll(dynamic_routes, new_routes)
            /\ req' = [handler |-> "update_routes", body |-> req_body]
            /\ resp' = UpdateResponse(parsed)
    /\ rng' = <<>>
    /\ UNCHANGED error_percentage
    /\ SeqFrame

\* the server writes the handler's response back; the worker is free again
SendResponse ==
    /\ ~Idle
    /\ resp' = NoResp
    /\ req' = NoReq
    /\ rng' = <<>>
    /\ UNCHANGED <<dynamic_routes, error_percentage>>
    /\ SeqFrame

----------------------------------------------------------------------------
(* Startup *)

\* routes.yml: a map from key to Route (the key need not be the path)
StartupTables ==
    {EmptyTable} \cup {Insert(EmptyTable, k, r) : k \in Paths, r \in Route}

StartupPercentages == {0, 50, 100}

Init ==
    /\ dynamic_routes \in StartupTables
    /\ error_percentage \in StartupPercentages
    /\ req = NoReq
    /\ resp = NoResp
    /\ rng = <<>>
    /\ WorkersIdle

Next ==
    \/ echo
    \/ host
    \/ healthz
    \/ status_code
    \/ status_error_percentage
    \/ update_routes
    \/ dynamic_handler
    \/ SendResponse

Spec == Init /\ [][Next]_vars

\* dynamic_handler as a function of its request: any method token, as a
\* direct call of the handler passes it (the router of main passes only
\* DynMethods)
AnyMethods == DynMethods \cup {"get", "HEAD"}

dynamic_handler_direct == DispatchFrom(AnyMethods)

NextHandler ==
    \/ dynamic_handler_direct
    \/ SendResponse

SpecHandler == Init /\ [][NextHandler]_vars

\* the error injector over every u8 percentage, against a flagged route
PickerTables ==
    {EmptyTable}
    \cup {Insert(EmptyTable, "a",
                 [method |-> m, path |-> "a", response |-> "hi", code |-> 500, error |-> TRUE])
            : m \in {"GET", "DELETE"}}

InitPicker ==
    /\ dynamic_routes \in PickerTables
    /\ error_percentage \in 0..U8Max
    /\ req = NoReq
    /\ resp = NoResp
    /\ rng = <<>>
    /\ WorkersIdle

NextPicker ==
    \/ dynamic_handler
    \/ status_error_percentage
    \/ SendResponse

SpecPicker == InitPicker /\ [][NextPicker]_vars

----------------------------------------------------------------------------
(* Concurrent workers: the handlers step by step, one step per lock       *)
(* operation, map operation or response.                                  *)

\* the routes of the two batches the concurrent updates send
ConcRouteA1 == [method |-> "GET", path |-> "a", response |-> "hi", code |-> 500, error |-> FALSE]
ConcRouteB1 == [method |-> "GET", path |-> "b", response |-> "hi", code |-> 500, error |-> FALSE]
ConcRouteA2 == [method |-> "DELETE", path |-> "a", response |-> "OK", code |-> 200, error |-> TRUE]
ConcRouteB2 == [method |-> "POST", path |-> "b", response |-> "OK", code |-> 99, error |-> FALSE]

ConcBodies ==
    {[kind |-> "array", items |-> <<ToJson(ConcRouteA1), ToJson(ConcRouteB1)>>],
     [kind |-> "array", items |-> <<ToJson(ConcRouteB2), ToJson(ConcRouteA2)>>]}

\* (method, path) of the requests the concurrent workers dispatch
ConcRequests == {<<"GET", "a">>, <<"DELETE", "a">>}

ConcTables == {EmptyTable}

ConcPercentages == {1}

SeqIdle == UNCHANGED <<req, resp, rng>>

\* the guard of lines 89-92 kept after the end of its block
LockAfterGet_Held(w) == w

\* the owner of the table mutex after the block of lines 89-92
LockAfterGet(w) == Free

\* the guard released after each insert and not taken again
LockAfterInsert_Release(w) == Free

\* the owner of the table mutex after an insert of the loop: the guard
\* `routes` lives until the function returns
LockAfterInsert(w) == w

\* the guard of the percentage kept after the read
LockAfterRead_Held(w) == w

\* the owner of the percentage mutex after line 74: the temporary guard is
\* dropped at the end of the statement
LockAfterRead(w) == Free

\* the handler reading the table again instead of its clone
RouteUsed_Live(cloned, m, k) == Get(m, k)

\* the route the handler works on after the lookup: its own clone
RouteUsed(cloned, m, k) == cloned

\* lines 86-90: a worker enters dynamic_handler and reaches lock()
W_dispatch_begin(w) ==
    /\ th[w].pc = "idle"
    /\ \E request \in ConcRequests :
         th' = [th EXCEPT ![w] = [IdleWorker EXCEPT !.pc = "d_lock",
                                     !.handler = "dynamic_handler",
                                     !.method = request[1], !.path = request[2]]]
    /\ UNCHANGED <<dynamic_routes, error_percentage, table_lock, pct_lock, committed>>
    /\ SeqIdle

\* line 90: lock() returns once the mutex is free
W_dispatch_lock(w) ==
    /\ th[w].pc = "d_lock"
    /\ table_lock = Free
    /\ table_lock' = w
    /\ th' = [th EXCEPT ![w].pc = "d_get"]
    /\ UNCHANGED <<dynamic_routes, error_percentage, pct_lock, committed>>
    /\ SeqIdle

\* lines 91-92: get, clone, end of block
W_dispatch_get(w) ==
    /\ th[w].pc = "d_get"
    /\ th' = [th EXCEPT ![w].route = Get(dynamic_routes, th[w].path),
                        ![w].pc = "d_respond"]
    /\ table_lock' = LockAfterGet(w)
    /\ dynamic_routes' = AfterLookup(dynamic_routes, th[w].path)
    /\ UNCHANGED <<error_percentage, pct_lock, committed>>
    /\ SeqIdle

\* lines 94-119: the response, or the call of error_code_picker
W_dispatch_respond(w) ==
    /\ th[w].pc = "d_respond"
    /\ LET route == RouteUsed(th[w].route, dynamic_routes, th[w].path) IN
       IF route # <<>> /\ th[w].method = route[1].method /\ route[1].error
       THEN th' = [th EXCEPT ![w].pc = "p_lock"]
       ELSE th' = [th EXCEPT ![w].resp = DynamicResponse(route, th[w].method, 0, <<>>),
                             ![w].pc = "done"]
    /\ UNCHANGED <<dynamic_routes, error_percentage, table_lock, pct_lock, committed>>
    /\ SeqIdle

\* lines 62-63: a worker enters status_error_percentage
W_errors_begin(w) ==
    /\ th[w].pc = "idle"
    /\ th' = [th EXCEPT ![w] = [IdleWorker EXCEPT !.pc = "p_lock",
                                    !.handler = "status_error_percentage"]]
    /\ UNCHANGED <<dynamic_routes, error_percentage, table_lock, pct_lock, committed>>
    /\ SeqIdle

\* line 74: error_percentage.lock()
W_picker_lock(w) ==
    /\ th[w].pc = "p_lock"
    /\ pct_lock = Free
    /\ pct_lock' = w
    /\ th' = [th EXCEPT ![w].pc = "p_read"]
    /\ UNCHANGED <<dynamic_routes, error_percentage, table_lock, committed>>
    /\ SeqIdle

\* line 74: the value is copied out and the guard dropped
W_picker_read(w) ==
    /\ th[w].pc = "p_read"
    /\ th' = [th EXCEPT ![w].ep = error_percentage, ![w].pc = "p_draw"]
    /\ pct_lock' = LockAfterRead(w)
    /\ UNCHANGED <<dynamic_routes, error_percentage, table_lock, committed>>
    /\ SeqIdle

\* lines 75-82 and the response of the caller (lines 64-68 or 103-104)
W_picker_draw(w) ==
    /\ th[w].pc = "p_draw"
    /\ \E run \in PickerRuns(th[w].ep) :
         LET error_code == error_code_picker(th[w].ep, run) IN
         th' = [th EXCEPT ![w].resp =
                              IF th[w].handler = "dynamic_handler"
                              THEN Response(StatusOrOk(error_code), "")
                              ELSE Response(error_code, ""),
                          ![w].pc = "done"]
    /\ UNCHANGED <<dynamic_routes, error_percentage, table_lock, pct_lock, committed>>
    /\ SeqIdle

\* lines 123-126: the body is parsed, then lock() is reached
W_update_begin(w) ==
    /\ th[w].pc = "idle"
    /\ \E req_body \in ConcBodies :
         th' = [th EXCEPT ![w] = [IdleWorker EXCEPT !.pc = "u_lock",
                                     !.handler = "update_routes",
                                     !.new_routes = UnwrapOrDefault(FromStr(req_body))]]
    /\ UNCHANGED <<dynamic_routes, error_percentage, table_lock, pct_lock, committed>>
    /\ SeqIdle

\* line 126: lock() returns once the mutex is free
W_update_lock(w) ==
    /\ th[w].pc = "u_lock"
    /\ table_lock = Free
    /\ table_lock' = w
    /\ th' = [th EXCEPT ![w].pc = "u_insert"]
    /\ UNCHANGED <<dynamic_routes, error_percentage, pct_lock, committed>>
    /\ SeqIdle

\* line 128: one turn of the loop
W_update_insert(w) ==
    /\ th[w].pc = "u_insert"
    /\ th[w].i < Len(th[w].new_routes)
    /\ LET route == th[w].new_routes[th[w].i + 1] IN
          dynamic_routes' = Insert(dynamic_routes, route.path, route)
    /\ th' = [th EXCEPT ![w].i = th[w].i + 1]
    /\ table_lock' = LockAfterInsert(w)
    /\ UNCHANGED <<error_percentage, pct_lock, committed>>
    /\ SeqIdle

\* lines 130-131: the response is built and the guard dropped on return
W_update_return(w) ==
    /\ th[w].pc = "u_insert"
    /\ th[w].i = Len(th[w].new_routes)
    /\ th' = [th EXCEPT ![w].resp = Response(200, ""), ![w].pc = "done"]
    /\ table_lock' = Free
    /\ committed' = InsertAll(committed, th[w].new_routes)
    /\ UNCHANGED <<dynamic_routes, error_percentage, pct_lock>>
    /\ SeqIdle

\* the response is written back and the worker takes the next request
W_send(w) ==
    /\ th[w].pc = "done"
    /\ th' = [th EXCEPT ![w] = IdleWorker]
    /\ UNCHANGED <<dynamic_routes, error_percentage, table_lock, pct_lock, committed>>
    /\ SeqIdle

c_dispatch_begin == \E w \in Workers : W_dispatch_begin(w)
c_dispatch_lock == \E w \in Workers : W_dispatch_lock(w)
c_dispatch_get == \E w \in Workers : W_dispatch_get(w)
c_dispatch_respond == \E w \in Workers : W_dispatch_respond(w)
c_errors_begin == \E w \in Workers : W_errors_begin(w)
c_picker_lock == \E w \in Workers : W_picker_lock(w)
c_picker_read == \E w \in Workers : W_picker_read(w)
c_picker_draw == \E w \in Workers : W_picker_draw(w)
c_update_begin == \E w \in Workers : W_update_begin(w)
c_update_lock == \E w \in Workers : W_update_lock(w)
c_update_insert == \E w \in Workers : W_update_insert(w)
c_update_return == \E w \in Workers : W_update_return(w)
c_send == \E w \in Workers : W_send(w)

InitConc ==
    /\ dynamic_routes \in ConcTables
    /\ error_percentage \in ConcPercentages
    /\ req = NoReq
    /\ resp = NoResp
    /\ rng = <<>>
    /\ WorkersIdle

NextConc ==
    \/ c_dispatch_begin
    \/ c_dispatch_lock
    \/ c_dispatch_get
    \/ c_dispatch_respond
    \/ c_errors_begin
    \/ c_picker_lock
    \/ c_picker_read
    \/ c_picker_draw
    \/ c_update_begin
    \/ c_update_lock
    \/ c_update_insert
    \/ c_update_return
    \/ c_send

SpecConc == InitConc /\ [][NextConc]_vars

\* a step of worker w that takes a mutex
Acquire(w) == W_dispatch_lock(w) \/ W_update_lock(w) \/ W_picker_lock(w)

\* a step of worker w inside a handler that waits for nothing
Proceed(w) ==
    \/ W_dispatch_get(w) \/ W_dispatch_respond(w)
    \/ W_picker_read(w) \/ W_picker_draw(w)
    \/ W_update_insert(w) \/ W_update_return(w)

\* fair scheduling: a running handler keeps running, and a handler that
\* finds its mutex free again and again gets it
SpecConcFair ==
    /\ SpecConc
    /\ \A w \in Workers : WF_vars(Proceed(w)) /\ SF_vars(Acquire(w))

----------------------------------------------------------------------------
(* Dispatch: claims C1..C3 *)

Dispatched == req.handler = "dynamic_handler"

BodyMethods == {"GET", "POST", "PATCH", "PUT"}

\* the body the claim expects for a matched, unflagged route
ExpectedBody(r) == IF r.method = "DELETE" THEN "" ELSE r.response

\* C1 as stated: for every route r in the table with r.error = false, a
\* dispatch of (r.method, r.path) yields status r.code, with body r.response
\* for GET, POST, PATCH, PUT and an empty body for DELETE.
C1_AsStated ==
    Dispatched =>
        \A k \in DOMAIN dynamic_routes :
            LET r == dynamic_routes[k] IN
            (/\ ~r.error
             /\ r.method \in BodyMethods \cup {"DELETE"}
             /\ req.method = r.method
             /\ req.path = r.path)
            => (resp.status = r.code /\ resp.body = ExpectedBody(r))

\* C1 amended: for every entry of the table, stored under key k with route r
\* and r.error = false, a dispatch of (r.method, k) yields status r.code when
\* 100 <= r.code <= 999 and status 200 otherwise, with body r.response for
\* GET, POST, PATCH, PUT and an empty body for DELETE.
C1_DispatchStored ==
    Dispatched =>
        \A k \in DOMAIN dynamic_routes :
            LET r == dynamic_routes[k] IN
            (/\ ~r.error
             /\ r.method \in BodyMethods \cup {"DELETE"}
             /\ req.method = r.method
             /\ req.path = k)
            => (/\ resp.status = (IF r.code \in 100..999 THEN r.code ELSE 200)
                /\ resp.body = ExpectedBody(r))

\* a PUT route with a valid code, stored under a key other than its path,
\* has been dispatched by its key and answered with its code and body
C1_Witness ==
    /\ Dispatched
    /\ req.path \in DOMAIN dynamic_routes
    /\ LET r == dynamic_routes[req.path] IN
          /\ ~r.error
          /\ r.method = "PUT" /\ req.method = "PUT"
          /\ r.path # req.path
          /\ r.code = 999
          /\ resp.status = 999 /\ resp.body = r.response

\* C2: a dispatch of a path that is not a key of the route table yields 404
\* with an empty body, for every method and every error_percentage.
C2_UnknownPath404 ==
    (Dispatched /\ req.path \notin DOMAIN dynamic_routes)
        => (resp.status = 404 /\ resp.body = "" /\ rng = <<>>)

\* a DELETE of an unregistered path while another path is registered and
\* error_percentage is 100 has been answered 404
C2_Witness ==
    /\ Dispatched
    /\ req.method = "DELETE"
    /\ req.path \notin DOMAIN dynamic_routes
    /\ DOMAIN dynamic_routes # {}
    /\ error_percentage = 100
    /\ resp.status = 404

\* C3: a dispatch of a registered path with a method different from the
\* stored route's method (exact string comparison) yields 405 with an empty
\* body, also when the route is flagged error, and draws nothing from the
\* error injector.
C3_MethodMismatch405 ==
    (/\ Dispatched
     /\ req.path \in DOMAIN dynamic_routes
     /\ req.method # dynamic_routes[req.path].method)
        => (resp.status = 405 /\ resp.body = "" /\ rng = <<>>)

\* GET on a route stored with method "get", flagged error, at
\* error_percentage 100, has been answered 405
C3_Witness ==
    /\ Dispatched
    /\ req.path \in DOMAIN dynamic_routes
    /\ req.method = "GET"
    /\ dynamic_routes[req.path].method = "get"
    /\ dynamic_routes[req.path].error
    /\ error_percentage = 100
    /\ resp.status = 405

----------------------------------------------------------------------------
(* Error injection: claims C4, C5 *)

ErrorStatuses == {400, 401, 403, 408, 409, 500, 502, 503, 504}

\* C4: the status /errors returns is the error injector's result: it is in
\* {200} \cup ErrorStatuses, it is 200 for every draw when error_percentage
\* is 0, it is never 200 when error_percentage >= 100, and for a draw d in
\* [0,100) it is not 200 exactly when d < error_percentage.
C4_InjectorStatus ==
    req.handler = "status_error_percentage" =>
        /\ resp.status \in {200} \cup ErrorStatuses
        /\ resp.body = ""
        /\ rng # <<>> /\ rng[1] \in 0..99
        /\ (resp.status # 200) <=> (rng[1] < error_percentage)
        /\ error_percentage = 0 => resp.status = 200
        /\ error_percentage >= 100 => resp.status # 200

\* /errors has answered 504 on the largest draw at error_percentage 255
C4_Witness ==
    /\ req.handler = "status_error_percentage"
    /\ error_percentage = 255
    /\ rng # <<>> /\ rng[1] = 99
    /\ resp.status = 504

\* C5: a dispatch that matches the method of a route flagged error answers
\* with the status the error injector chose and an empty body, whatever the
\* route's code and response: an error status exactly when the draw is below
\* error_percentage, so never 200 at 100 and always 200 at 0.
C5_FlaggedRouteInjected ==
    (/\ Dispatched
     /\ req.path \in DOMAIN dynamic_routes
     /\ dynamic_routes[req.path].error
     /\ req.method = dynamic_routes[req.path].method)
        => /\ resp.body = ""
           /\ rng # <<>> /\ rng[1] \in 0..99
           /\ resp.status \in {200} \cup ErrorStatuses
           /\ (resp.status # 200) <=> (rng[1] < error_percentage)
           /\ Len(rng) = 2 => (rng[2] \in 0..8 /\ resp.status = errors[rng[2] + 1])
           /\ error_percentage = 100 => resp.status \in ErrorStatuses
           /\ error_percentage = 0 => resp.status = 200

\* a flagged POST route with code 500 and a body has been dispatched at
\* error_percentage 0 and answered 200 with an empty body
C5_Witness ==
    /\ Dispatched
    /\ req.path \in DOMAIN dynamic_routes
    /\ req.method = "POST"
    /\ LET r == dynamic_routes[req.path] IN
          r.error /\ r.method = "POST" /\ r.code = 500 /\ r.response = "hi"
    /\ error_percentage = 0
    /\ resp.status = 200 /\ resp.body = ""

----------------------------------------------------------------------------
(* Route updates: claims C6..C10 *)

Updated == req.handler = "update_routes"

TypedField(o, f, tag) == f \in DOMAIN o /\ o[f][1] = tag

\* a JSON value that is a complete Route: an object with all five fields,
\* each of its type, the code within u16
CompleteItem(it) ==
    /\ it[1] = "obj"
    /\ \A f \in {"method", "path", "response"} : TypedField(it[2], f, "str")
    /\ TypedField(it[2], "code", "num") /\ it[2]["code"][2] \in 0..65535
    /\ TypedField(it[2], "error", "bool")

\* a JSON value that is a Route with some fields left out: an object with a
\* path, whose other fields are of their type when given
PartialItem(it) ==
    /\ it[1] = "obj"
    /\ TypedField(it[2], "path", "str")
    /\ \A f \in {"method", "response"} : f \in DOMAIN it[2] => it[2][f][1] = "str"
    /\ "code" \in DOMAIN it[2] => (it[2]["code"][1] = "num" /\ it[2]["code"][2] \in 0..65535)
    /\ "error" \in DOMAIN it[2] => it[2]["error"][1] = "bool"

\* the body is a JSON array of complete Routes
CompleteBody(b) ==
    b.kind = "array" /\ \A i \in 1..Len(b.items) : CompleteItem(b.items[i])

\* the Route an item stands for, omitted fields taking the documented defaults
ItemRoute(it) ==
    LET o == it[2] IN
    [method |-> IF "method" \in DOMAIN o THEN o["method"][2] ELSE "GET",
     path |-> o["path"][2],
     response |-> IF "response" \in DOMAIN o THEN o["response"][2] ELSE "OK",
     code |-> IF "code" \in DOMAIN o THEN o["code"][2] ELSE 200,
     error |-> IF "error" \in DOMAIN o THEN o["error"][2] ELSE FALSE]

ItemPaths(items) == {items[i][2]["path"][2] : i \in 1..Len(items)}

\* the last item of the array written for path p
LastFor(items, p) ==
    items[CHOOSE i \in 1..Len(items) :
            /\ items[i][2]["path"][2] = p
            /\ \A j \in (i + 1)..Len(items) : items[j][2]["path"][2] # p]

\* C6: an update whose payload names a path already in the table replaces
\* that entry as a whole: afterwards every field of the entry is the new
\* route's, and when every path of the payload was already in the table the
\* number of entries is unchanged.
C6_UpsertReplaces ==
    [][(req'.handler = "update_routes" /\ CompleteBody(req'.body)) =>
        LET items == req'.body.items IN
        /\ \A p \in ItemPaths(items) \cap DOMAIN dynamic_routes :
              /\ p \in DOMAIN dynamic_routes'
              /\ dynamic_routes'[p] = ItemRoute(LastFor(items, p))
        /\ ItemPaths(items) \subseteq DOMAIN dynamic_routes =>
              Cardinality(DOMAIN dynamic_routes') = Cardinality(DOMAIN dynamic_routes)]_vars

\* an update has upserted two routes for "a" that differ in every field but
\* the path, one after the other, and the table holds the second alone
C6_Witness ==
    /\ Updated
    /\ CompleteBody(req.body)
    /\ Len(req.body.items) = 2
    /\ LET r1 == ItemRoute(req.body.items[1])
           r2 == ItemRoute(req.body.items[2])
       IN /\ r1.path = "a" /\ r2.path = "a"
          /\ r1.method # r2.method /\ r1.response # r2.response
          /\ r1.code # r2.code /\ r1.error # r2.error
          /\ DOMAIN dynamic_routes = {"a"}
          /\ dynamic_routes["a"] = r2

\* C7: applying the payload of a completed update a second time leaves the
\* route table as the first application left it.
C7_UpsertIdempotent ==
    Updated =>
        InsertAll(dynamic_routes, UnwrapOrDefault(FromStr(req.body))) = dynamic_routes

\* an update of two different routes for two paths has been applied
C7_Witness ==
    /\ Updated
    /\ CompleteBody(req.body)
    /\ Len(req.body.items) = 2
    /\ ItemPaths(req.body.items) = {"a", "b"}
    /\ \A p \in {"a", "b"} :
          p \in DOMAIN dynamic_routes
          /\ dynamic_routes[p] = ItemRoute(LastFor(req.body.items, p))

\* C8: an update whose payload is not a JSON array of complete Routes (one
\* bad element is enough) leaves the route table as it was.
C8_MalformedUpdateNoop ==
    [][(req'.handler = "update_routes" /\ ~CompleteBody(req'.body)) =>
        dynamic_routes' = dynamic_routes]_vars

\* an update of a complete route followed by a number has completed, a
\* route registered before is still in the table and the complete route of
\* the payload is not
C8_Witness ==
    /\ Updated
    /\ req.body.kind = "array"
    /\ Len(req.body.items) = 2
    /\ CompleteItem(req.body.items[1])
    /\ req.body.items[2][1] = "num"
    /\ ItemRoute(req.body.items[1]).path \notin DOMAIN dynamic_routes
    /\ DOMAIN dynamic_routes # {}

\* the body is a JSON array of Routes, at least one with a field left out
PartialBody(b) ==
    /\ b.kind = "array"
    /\ \A i \in 1..Len(b.items) : PartialItem(b.items[i])
    /\ \E i \in 1..Len(b.items) : ~CompleteItem(b.items[i])

\* C9: after an update whose payload has a route with fields left out, the
\* table holds that route under its path with method GET, response "OK",
\* code 200 and error false in place of the fields left out.
C9_OmittedFieldsDefaulted ==
    (Updated /\ PartialBody(req.body)) =>
        \A p \in ItemPaths(req.body.items) :
            /\ p \in DOMAIN dynamic_routes
            /\ dynamic_routes[p] = ItemRoute(LastFor(req.body.items, p))

\* the item gives method, path, response and code, as a Route of the
\* documented scenarios does; error may be given or left out
ScenarioItem(it) ==
    PartialItem(it) /\ {"method", "path", "response", "code"} \subseteq DOMAIN it[2]

\* C10: once an update whose payload holds a route r (given by its method,
\* path, response and code; method GET, POST, PATCH or PUT, error false or
\* left out, a valid code) has completed, a dispatch of (r.method, r.path) on
\* the table it left answers r.code with body r.response.
C10_UpdateThenDispatch ==
    (/\ Updated
     /\ req.body.kind = "array"
     /\ \A i \in 1..Len(req.body.items) : ScenarioItem(req.body.items[i]))
        => \A p \in ItemPaths(req.body.items) :
              LET r == ItemRoute(LastFor(req.body.items, p))
                  route == Get(dynamic_routes, p)
              IN (~r.error /\ r.method \in BodyMethods /\ r.code \in 100..999)
                 => \A run \in DynamicRuns(route, r.method, error_percentage) :
                       LET answer == DynamicResponse(route, r.method, error_percentage, run)
                       IN answer.status = r.code /\ answer.body = r.response

----------------------------------------------------------------------------
(* Claims C11.. *)

\* C11: the /routes update answers 200 with an empty body for every
\* payload, applied or not.
C11_UpdateAlways200 ==
    Updated => (resp.status = 200 /\ resp.body = "")

\* an update whose payload is not JSON has been answered 200 and has left
\* the table empty
C11_Witness ==
    /\ Updated
    /\ req.body.kind = "garbage"
    /\ dynamic_routes = EmptyTable
    /\ resp.status = 200

\* C15: a step of any handler other than the route update leaves the route
\* table as it was, and no step at all changes error_percentage.
C15_OnlyUpdateWrites ==
    [][/\ req'.handler # "update_routes" => dynamic_routes' = dynamic_routes
       /\ error_percentage' = error_percentage]_vars

\* a dispatch of an unregistered path has been answered 404 while the
\* table still holds its one route and not the path asked for
C15_Witness ==
    /\ Dispatched
    /\ resp.status = 404
    /\ DOMAIN dynamic_routes = {"a"}
    /\ req.path = "b"

\* C16: every entry of the route table is stored under the key equal to its
\* own path field, in the table loaded at startup too.
C16_KeyIsPath ==
    \A k \in DOMAIN dynamic_routes : dynamic_routes[k].path = k

\* C17: an update stores a complete route whatever its code; a dispatch
\* that matches the method of an unflagged route whose code is outside
\* 100..999 answers 200 with the route's usual body, and one whose code is
\* within 100..999 answers exactly that code.
C17_InvalidCodeIs200 ==
    [][/\ (req'.handler = "update_routes" /\ CompleteBody(req'.body)) =>
            /\ resp'.status = 200
            /\ \A i \in 1..Len(req'.body.items) :
                  LET r == ItemRoute(req'.body.items[i]) IN
                  r.path \in DOMAIN dynamic_routes'
                  /\ (r.code \notin 100..999 /\ r = ItemRoute(LastFor(req'.body.items, r.path)))
                        => dynamic_routes'[r.path].code = r.code
       /\ (/\ req'.handler = "dynamic_handler"
           /\ req'.path \in DOMAIN dynamic_routes
           /\ ~dynamic_routes[req'.path].error
           /\ dynamic_routes[req'.path].method \in BodyMethods \cup {"DELETE"}
           /\ req'.method = dynamic_routes[req'.path].method) =>
            LET r == dynamic_routes[req'.path] IN
            /\ r.code \in 100..999 => resp'.status = r.code
            /\ r.code \notin 100..999 => resp'.status = 200
            /\ resp'.body = ExpectedBody(r)]_vars

\* a route with code 99, stored by an update next to a startup route, has
\* been dispatched with its method and answered 200 with its body
C17_Witness ==
    /\ Dispatched
    /\ DOMAIN dynamic_routes = {"a", "b"}
    /\ req.path = "b" /\ req.method = "POST"
    /\ dynamic_routes["b"].method = "POST"
    /\ dynamic_routes["b"].code = 99
    /\ ~dynamic_routes["b"].error
    /\ resp.status = 200 /\ resp.body = dynamic_routes["b"].response

\* C18: a call of dynamic_handler whose method equals the stored method of
\* an unflagged route, that method being none of GET, POST, PATCH, PUT,
\* DELETE, answers 404 with an empty body.
C18_OtherMethod404 ==
    (/\ Dispatched
     /\ req.path \in DOMAIN dynamic_routes
     /\ ~dynamic_routes[req.path].error
     /\ dynamic_routes[req.path].method \notin BodyMethods \cup {"DELETE"}
     /\ req.method = dynamic_routes[req.path].method)
        => (resp.status = 404 /\ resp.body = "" /\ rng = <<>>)

\* the handler, called with method "get" for a route stored with method
\* "get", code 500 and a body, has answered 404
C18_Witness ==
    /\ Dispatched
    /\ req.method = "get"
    /\ req.path \in DOMAIN dynamic_routes
    /\ LET r == dynamic_routes[req.path] IN
          r.method = "get" /\ ~r.error /\ r.code = 500 /\ r.response = "hi"
    /\ resp.status = 404 /\ resp.body = ""

\* C20: no step removes a key of the route table, so a path that a dispatch
\* has found is found by every later dispatch.
C20_KeysOnlyGrow ==
    [][DOMAIN dynamic_routes \subseteq DOMAIN dynamic_routes']_vars

\* an update that wrote "b" has completed and the route loaded at startup
\* under "a" (method "get", which no payload carries) is still in the table
C20_Witness ==
    /\ Updated
    /\ CompleteBody(req.body)
    /\ ItemPaths(req.body.items) = {"b"}
    /\ DOMAIN dynamic_routes = {"a", "b"}
    /\ dynamic_routes["a"].method = "get"

----------------------------------------------------------------------------
(* Locking and interleaving: claims C12, C13, C14, C19 *)

\* map operations worker w has made since it took the table mutex
OpsUnderLock(w) == IF th[w].pc = "u_insert" THEN th[w].i ELSE 0

\* C12 as stated: the table mutex is never held across more than one map
\* operation (an update releases it between the upserts of its batch).
C12_AsStated ==
    \A w \in Workers : table_lock = w => OpsUnderLock(w) <= 1

\* C12 amended: a dispatch holds the table mutex only for its single get
\* and has released it before the method check, the error injection and
\* the response; an update takes the mutex once and holds it across all the
\* upserts of its batch, until the handler returns.
C12_LockScope ==
    /\ table_lock \in Workers \cup {Free}
    /\ \A w \in Workers : (table_lock = w) <=> (th[w].pc \in {"d_get", "u_insert"})

\* an update has made both upserts of its batch under one hold of the mutex
\* while a dispatch waits for it
C12_Witness ==
    \E w, u \in Workers :
        /\ th[w].pc = "u_insert" /\ th[w].i = 2 /\ table_lock = w
        /\ th[u].pc = "d_lock"

\* the response is the one dynamic_handler builds from the route value alone
BuiltFrom(route, method, answer) ==
    IF route = <<>> THEN answer.status = 404 /\ answer.body = ""
    ELSE LET r == route[1] IN
         IF method # r.method THEN answer.status = 405 /\ answer.body = ""
         ELSE IF r.error
              THEN answer.status \in {200} \cup ErrorStatuses /\ answer.body = ""
              ELSE /\ answer.status = (IF r.code \in 100..999 THEN r.code ELSE 200)
                   /\ answer.body = ExpectedBody(r)

\* C13: the route a dispatch works on is the value stored under its path at
\* the instant of its lookup, it stays that value until the response, and
\* the response is built from it alone, whatever updates run meanwhile.
C13_SnapshotUsed ==
    [][\A w \in Workers :
          th[w].handler = "dynamic_handler" =>
            /\ (th[w].pc = "d_get" /\ th'[w].pc # "d_get") =>
                  th'[w].route = (IF th[w].path \in DOMAIN dynamic_routes
                                  THEN <<dynamic_routes[th[w].path]>> ELSE <<>>)
            /\ (th[w].pc \in {"d_respond", "p_lock", "p_read", "p_draw"}
                /\ th'[w].pc # "idle") => th'[w].route = th[w].route
            /\ (th[w].pc # "done" /\ th'[w].pc = "done") =>
                  BuiltFrom(th[w].route, th[w].method, th'[w].resp)]_vars

\* a GET has been answered from the route it looked up, after an update
\* replaced every field of the entry under its path
C13_Witness ==
    \E w \in Workers :
        /\ th[w].pc = "done" /\ th[w].handler = "dynamic_handler"
        /\ th[w].method = "GET" /\ th[w].path = "a"
        /\ th[w].route # <<>>
        /\ "a" \in DOMAIN dynamic_routes
        /\ LET r == th[w].route[1]
               now == dynamic_routes["a"]
           IN /\ r.method = "GET" /\ ~r.error
              /\ now.method # r.method /\ now.code # r.code
              /\ now.response # r.response /\ now.error # r.error
              /\ th[w].resp.status = r.code /\ th[w].resp.body = r.response

\* C14: no worker ever holds both mutexes, the holder of a mutex is always
\* at a step that needs no other mutex (so no deadlock), a worker leaves a
\* handler only with its response built, and under fair scheduling no
\* worker stays inside a handler for ever: every request a worker has
\* taken is answered.
C14_EveryRequestCompletes ==
    /\ [](\A w \in Workers : ~(table_lock = w /\ pct_lock = w))
    /\ [](table_lock # Free => th[table_lock].pc \in {"d_get", "u_insert"})
    /\ [](pct_lock # Free => th[pct_lock].pc = "p_read")
    /\ [][\A w \in Workers :
            (th[w].pc # "idle" /\ th'[w].pc = "idle") => th[w].pc = "done"]_vars
    /\ \A w \in Workers : []<>(th[w].pc \in {"idle", "done"})

\* an update waits for the table mutex that another update holds while it
\* is between the two upserts of its batch
C14_Witness ==
    \E w, u \in Workers :
        /\ th[w].pc = "u_lock"
        /\ th[u].pc = "u_insert" /\ th[u].i = 1 /\ table_lock = u

\* worker w is between two upserts of its batch
MidBatch(w) ==
    th[w].pc = "u_insert" /\ th[w].i > 0 /\ th[w].i < Len(th[w].new_routes)

\* C19: while an update is between two upserts of its batch it holds the
\* table mutex and no other worker is at a lookup or an upsert; every
\* lookup sees, and every table no update is writing is, the table the
\* completed batches give when applied whole, one after the other.
C19_BatchAtomic ==
    /\ \A w \in Workers :
          /\ MidBatch(w) =>
                /\ table_lock = w
                /\ \A u \in Workers \ {w} : th[u].pc \notin {"d_get", "u_insert"}
          /\ th[w].pc = "d_get" => dynamic_routes = committed
    /\ (\A w \in Workers : th[w].pc # "u_insert") => dynamic_routes = committed

\* a dispatch of "a" waits at the mutex while an update has written "b"
\* and not yet "a"
C19_Witness ==
    \E w, u \in Workers :
        /\ MidBatch(w)
        /\ th[w].new_routes[1].path = "b"
        /\ th[u].pc = "d_lock" /\ th[u].path = "a"
        /\ "b" \in DOMAIN dynamic_routes
        /\ "a" \notin DOMAIN dynamic_routes
====
